---- MODULE Spec2Model ----
(***************************************************************************)
(* Model of src/template.py: BlobCache (a count-bounded, disk-backed blob  *)
(* cache) and the WalrusClient operations that read through it.            *)
(*                                                                         *)
(* Blob ids and blob contents are small integers; content 0 stands for the *)
(* empty byte string b"".  A file of the cache directory is identified by  *)
(* its name; the file system yields the modification time of a file from   *)
(* a clock that never runs backwards and may stand still between two       *)
(* operations.                                                             *)
(***************************************************************************)
EXTENDS Integers, Sequences, FiniteSets, TLC

NumIds == 3
NumData == 2
MaxClock == 1
MaxCap == 2

BlobIds == 1..NumIds
Datas == 0..(NumData - 1)
None == -1

VARIABLES
  max_size,       \* BlobCache.max_size
  cache_index,    \* BlobCache._cache_index : blob_id -> file name
  access_times,   \* BlobCache._access_times, in dict insertion order
  files,          \* cache directory: file name -> [data, mtime]
  dir_exists,     \* the cache directory exists
  clock,          \* file system clock
  last,           \* the most recent call and its outcome
  lastPut,        \* history: data of the last successful put of an intact entry
  evicted,        \* history: ids removed from the cache and not put again
  mode,           \* history: what is recorded: "none", "entries" (lastPut and
                  \* evicted) or "all" (also lastUse and recent, as long as
                  \* there were only successful puts and fault-free gets)
  lastUse,        \* history: clock of the last put/hit of an indexed id
  recent          \* history: the max_size ids most recently put

cacheVars == <<cache_index, access_times, files, dir_exists>>
histVars == <<lastPut, evicted, mode, lastUse, recent>>
vars == <<max_size, cache_index, access_times, files, dir_exists, clock,
          last, lastPut, evicted, mode, lastUse, recent>>

----------------------------------------------------------------------------
(* dictionaries and the file system *)

Drop(f, k) == [x \in (DOMAIN f) \ {k} |-> f[x]]

Store(f, k, v) == [x \in (DOMAIN f) \cup {k} |-> IF x = k THEN v ELSE f[x]]

EmptyMap == [x \in {} |-> None]

\* a file name that two blob ids share
HashClash(id) == id % 2

\* hashlib.sha256(blob_id.encode()).hexdigest(): a file name that differs
\* from the id and is distinct for distinct ids
Hash(id) == (7 * id + 3) % 11

TimesKeys(s) == {s[i].id : i \in DOMAIN s}

Range(s) == {s[i] : i \in DOMAIN s}

\* d[k] = t on a Python dict: an existing key keeps its position
TimesSet(s, id, t) ==
  IF id \in TimesKeys(s)
  THEN [i \in DOMAIN s |-> IF s[i].id = id THEN [id |-> id, t |-> t] ELSE s[i]]
  ELSE Append(s, [id |-> id, t |-> t])

TimesDel(s, id) == SelectSeq(s, LAMBDA e : e.id # id)

\* min(self._access_times.items(), key=lambda x: x[1])[0]: the first item,
\* in insertion order, with the smallest timestamp
Oldest(s) ==
  s[CHOOSE i \in DOMAIN s :
      \A j \in DOMAIN s : s[j].t > s[i].t \/ (s[j].t = s[i].t /\ j >= i)].id

Cache == [index |-> cache_index, times |-> access_times,
          files |-> files, dir |-> dir_exists]

SetCache(c) ==
  /\ cache_index' = c.index
  /\ access_times' = c.times
  /\ files' = c.files
  /\ dir_exists' = c.dir

----------------------------------------------------------------------------
(* BlobCache *)

\* a file system call of get (open, read or getmtime) may raise
ReadFaults == {"none", "read"}

\* in put, open/write may raise, or getmtime after the write
WriteFaults == {"none", "write", "mtime"}

\* a removal that forgets the timestamp
RemoveKeepsTime(c, id) ==
  IF id \in DOMAIN c.index
  THEN [c EXCEPT !.files = Drop(@, c.index[id]), !.index = Drop(@, id)]
  ELSE c

RemoveFromCache(c, id) ==
  IF id \in DOMAIN c.index
  THEN [c EXCEPT !.files = Drop(@, c.index[id]),
                 !.index = Drop(@, id),
                 !.times = TimesDel(@, id)]
  ELSE c

\* an eviction that removes nothing
EvictNothing(c) == c

EvictOldest(c) ==
  IF c.times = <<>> THEN c ELSE RemoveFromCache(c, Oldest(c.times))

\* a get that records a timestamp for an id it does not find
CacheGetTouches(c, id, rf) ==
  IF id \notin DOMAIN c.index
  THEN [c |-> [c EXCEPT !.times = TimesSet(@, id, 0)], ret |-> None,
        removed |-> {}]
  ELSE LET p == c.index[id] IN
       IF p \in DOMAIN c.files /\ rf = "none"
       THEN [c |-> [c EXCEPT !.times = TimesSet(@, id, c.files[p].mtime)],
             ret |-> c.files[p].data, removed |-> {}]
       ELSE [c |-> RemoveFromCache(c, id), ret |-> None, removed |-> {id}]

\* BlobCache.get; rf is the fault, if any, that the file system raises
CacheGet(c, id, rf) ==
  IF id \notin DOMAIN c.index
  THEN [c |-> c, ret |-> None, removed |-> {}]
  ELSE LET p == c.index[id] IN
       IF p \in DOMAIN c.files /\ rf = "none"
       THEN [c |-> [c EXCEPT !.times = TimesSet(@, id, c.files[p].mtime)],
             ret |-> c.files[p].data, removed |-> {}]
       ELSE [c |-> RemoveFromCache(c, id), ret |-> None, removed |-> {id}]

\* the branch of get that a lookup takes
GetEvent(g) ==
  IF g.ret # None THEN "cache.get.hit"
  ELSE IF g.removed # {} THEN "cache.get.fault" ELSE "cache.get.miss"

\* the entry that the eviction step of put removes, None if there is none
PutVictim(c) ==
  IF Cardinality(DOMAIN c.index) >= max_size /\ c.times # <<>>
  THEN Oldest(c.times) ELSE None

\* BlobCache.put at file system time now; wf is the fault, if any
CachePut(c, id, data, now, wf) ==
  LET c1 == IF Cardinality(DOMAIN c.index) >= max_size
            THEN EvictOldest(c) ELSE c
      v == PutVictim(c)
      p == Hash(id)
      rm == IF v # None /\ v \in DOMAIN c.index THEN {v} ELSE {}
  IN IF ~c1.dir \/ wf = "write"
     THEN \* open or write raised: the handler removes the file if it exists
          [c |-> [c1 EXCEPT !.files = Drop(@, p)],
           raised |-> TRUE, victim |-> v, removed |-> rm]
     ELSE IF wf = "mtime"
     THEN \* written and indexed, then getmtime raised
          [c |-> [c1 EXCEPT !.files = Drop(@, p),
                            !.index = Store(@, id, p)],
           raised |-> TRUE, victim |-> v, removed |-> rm]
     ELSE [c |-> [c1 EXCEPT !.files = Store(@, p, [data |-> data, mtime |-> now]),
                            !.index = Store(@, id, p),
                            !.times = TimesSet(@, id, now)],
           raised |-> FALSE, victim |-> v, removed |-> rm]

\* BlobCache.cleanup
CacheCleanup(c) == [c EXCEPT !.files = EmptyMap, !.dir = FALSE]

----------------------------------------------------------------------------
(* history *)

RemoveId(s, id) == SelectSeq(s, LAMBDA x : x # id)

LastN(s, n) == IF Len(s) <= n THEN s ELSE SubSeq(s, Len(s) - n + 1, Len(s))

Intact(c, id) == id \in DOMAIN c.index /\ c.index[id] \in DOMAIN c.files

\* c: the cache after the call; removed: ids the call took out of the cache;
\* putId: id of a successful put (or None) with its data; hitId: id of a
\* successful get (or None); clean: the call met no fault and was no removal
Hist(c, removed, putId, putData, hitId, clean) ==
  /\ mode' = IF mode = "all" /\ ~clean THEN "entries" ELSE mode
  /\ evicted' = IF mode = "none" THEN evicted
                ELSE (evicted \cup removed) \ {putId}
  /\ lastPut' = IF mode = "none" THEN lastPut
                ELSE [i \in BlobIds |->
                        IF i = putId THEN putData
                        ELSE IF Intact(c, i) THEN lastPut[i] ELSE None]
  /\ lastUse' = [i \in BlobIds |->
                   IF mode # "all" \/ ~clean THEN None
                   ELSE IF i = putId \/ i = hitId THEN clock
                   ELSE IF i \in DOMAIN c.index THEN lastUse[i] ELSE None]
  /\ recent' = IF mode # "all" \/ ~clean THEN <<>>
               ELSE IF putId # None
               THEN LastN(Append(RemoveId(recent, putId), putId), max_size)
               ELSE recent

pure == mode = "all"

Call(op, id) ==
  [op |-> op, id |-> id, ret |-> None, exc |-> "none", events |-> <<>>,
   dest |-> None, fetched |-> None, staging |-> FALSE]

----------------------------------------------------------------------------
(* BlobCache operations *)

InitWith(m) ==
  /\ max_size \in 0..MaxCap
  /\ cache_index = EmptyMap
  /\ access_times = <<>>
  /\ files = EmptyMap
  /\ dir_exists = TRUE
  /\ clock = 0
  /\ last = Call("init", None)
  /\ mode = m
  /\ lastPut = [i \in BlobIds |-> None]
  /\ evicted = {}
  /\ lastUse = [i \in BlobIds |-> None]
  /\ recent = <<>>

Init == InitWith("all")

InitEntries == InitWith("entries")

InitPlain == InitWith("none")

Tick ==
  /\ clock < MaxClock
  /\ clock' = clock + 1
  /\ UNCHANGED <<max_size, cacheVars, last, histVars>>

GetF(id, rf) ==
  LET g == CacheGet(Cache, id, rf) IN
  /\ SetCache(g.c)
  /\ last' = [Call("get", id) EXCEPT
                !.ret = g.ret,
                !.events = <<GetEvent(g)>>]
  /\ Hist(g.c, g.removed, None, None, IF g.ret # None THEN id ELSE None,
          g.removed = {})
  /\ UNCHANGED <<max_size, clock>>

Get(id) ==
  \E rf \in (IF id \in DOMAIN cache_index THEN ReadFaults ELSE {"none"}) :
    GetF(id, rf)

PutF(id, data, wf) ==
  LET p == CachePut(Cache, id, data, clock, wf) IN
  /\ SetCache(p.c)
  /\ last' = [Call("put", id) EXCEPT
                !.ret = IF p.raised THEN None ELSE Hash(id),
                !.exc = IF p.raised THEN "OSError" ELSE "none",
                !.events = <<IF p.raised THEN "cache.put.raise"
                             ELSE "cache.put.ok">>]
  /\ Hist(p.c, p.removed, IF p.raised THEN None ELSE id, data, None,
          ~p.raised)
  /\ UNCHANGED <<max_size, clock>>

Put(id, data) == \E wf \in WriteFaults : PutF(id, data, wf)

Remove(id) ==
  /\ SetCache(RemoveFromCache(Cache, id))
  /\ last' = Call("remove", id)
  /\ Hist(RemoveFromCache(Cache, id),
          IF id \in DOMAIN cache_index THEN {id} ELSE {},
          None, None, None, FALSE)
  /\ UNCHANGED <<max_size, clock>>

Cleanup ==
  /\ SetCache(CacheCleanup(Cache))
  /\ last' = Call("cleanup", None)
  /\ Hist(CacheCleanup(Cache), {}, None, None, None, FALSE)
  /\ UNCHANGED <<max_size, clock>>

NextCache ==
  \/ Tick
  \/ \E id \in BlobIds : Get(id)
  \/ \E id \in BlobIds, d \in Datas : Put(id, d)
  \/ \E id \in BlobIds : Remove(id)
  \/ Cleanup

SpecCache == Init /\ [][NextCache]_vars

\* the cache without the clock
NextStore ==
  \/ \E id \in BlobIds : Get(id)
  \/ \E id \in BlobIds, d \in Datas : Put(id, d)
  \/ \E id \in BlobIds : Remove(id)
  \/ Cleanup

SpecStore == InitEntries /\ [][NextStore]_vars

----------------------------------------------------------------------------
(* WalrusClient *)

\* what a failed request carries: whether the exception has a response,
\* whether the response has a body, and what the body is
NoResponse == [response |-> FALSE, content |-> FALSE, body |-> "none"]

ErrorShapes ==
  { NoResponse,
    [response |-> TRUE, content |-> FALSE, body |-> "none"],
    [response |-> TRUE, content |-> TRUE, body |-> "not_json"],
    [response |-> TRUE, content |-> TRUE, body |-> "json_without_error"],
    [response |-> TRUE, content |-> TRUE, body |-> "error_is_mapping"],
    [response |-> TRUE, content |-> TRUE, body |-> "error_is_scalar"] }

\* the outcomes of a request: a payload, or a failure
NetOutcomes ==
  {[ok |-> TRUE, data |-> d, err |-> NoResponse] : d \in Datas}
    \cup {[ok |-> FALSE, data |-> None, err |-> e] : e \in ErrorShapes}

\* WalrusClient._handle_request_error: the exception that leaves it
HandleRequestError(e) ==
  IF e.response
  THEN IF e.content /\ e.body = "not_json" THEN "WalrusAPIError"
       ELSE IF e.content /\ e.body \in {"error_is_mapping", "error_is_scalar"}
       THEN IF e.body = "error_is_mapping" THEN "WalrusAPIError"
            ELSE "AttributeError"
       ELSE "WalrusAPIError"
  ELSE "WalrusAPIError"

Result(c) ==
  [c |-> c, ret |-> None, exc |-> "none", events |-> <<>>, dest |-> None,
   fetched |-> None, staging |-> FALSE, removed |-> {}, hit |-> FALSE,
   putOk |-> FALSE, clean |-> TRUE]

PutEvent(p) == IF p.raised THEN "cache.put.raise" ELSE "cache.put.ok"

\* a get_blob that lets the exception of cache.put escape
GetBlobPropagates(c, id, rf, out, wf, now) ==
  LET g == CacheGet(c, id, rf) IN
  IF g.ret # None
  THEN [Result(g.c) EXCEPT !.ret = g.ret, !.events = <<GetEvent(g)>>,
                           !.hit = TRUE]
  ELSE IF out.ok
  THEN LET p == CachePut(g.c, id, out.data, now, wf) IN
       [Result(p.c) EXCEPT
          !.ret = IF p.raised THEN None ELSE out.data,
          !.exc = IF p.raised THEN "OSError" ELSE "none",
          !.fetched = out.data,
          !.events = <<GetEvent(g), "net.ok", PutEvent(p)>>,
          !.removed = g.removed \cup p.removed,
          !.putOk = ~p.raised, !.clean = (g.removed = {} /\ ~p.raised)]
  ELSE [Result(g.c) EXCEPT
          !.exc = HandleRequestError(out.err),
          !.events = <<GetEvent(g), "net.fail">>,
          !.removed = g.removed, !.clean = (g.removed = {})]

\* WalrusClient.get_blob
GetBlobCall(c, id, rf, out, wf, now) ==
  LET g == CacheGet(c, id, rf) IN
  IF g.ret # None
  THEN [Result(g.c) EXCEPT !.ret = g.ret, !.events = <<GetEvent(g)>>,
                           !.hit = TRUE]
  ELSE IF out.ok
  THEN LET p == CachePut(g.c, id, out.data, now, wf) IN
       [Result(p.c) EXCEPT
          !.ret = out.data, !.fetched = out.data,
          !.events = <<GetEvent(g), "net.ok", PutEvent(p)>>,
          !.removed = g.removed \cup p.removed,
          !.putOk = ~p.raised, !.clean = (g.removed = {} /\ ~p.raised)]
  ELSE [Result(g.c) EXCEPT
          !.exc = HandleRequestError(out.err),
          !.events = <<GetEvent(g), "net.fail">>,
          !.removed = g.removed, !.clean = (g.removed = {})]

\* how the transfer of the body ends: all chunks received, a request error
\* at some chunk, or an interruption of the caller (KeyboardInterrupt or
\* another BaseException) at some chunk
Transfers == {"complete", "error", "cancel"}

\* a get_blob_as_file that caches what it has received when the transfer
\* is interrupted
GetBlobAsFilePartial(c, id, rf, out, xfer, wf, mv, now) ==
  LET g == CacheGet(c, id, rf) IN
  IF g.ret # None
  THEN [Result(g.c) EXCEPT !.dest = g.ret, !.events = <<GetEvent(g)>>,
                           !.hit = TRUE]
  ELSE IF ~out.ok
  THEN [Result(g.c) EXCEPT
          !.exc = HandleRequestError(out.err),
          !.events = <<GetEvent(g), "net.fail">>,
          !.removed = g.removed, !.clean = (g.removed = {})]
  ELSE LET p == CachePut(g.c, id, IF xfer # "complete" THEN 0 ELSE out.data,
                         now, wf) IN
       IF xfer # "complete"
       THEN [Result(p.c) EXCEPT
               !.exc = HandleRequestError(NoResponse),
               !.events = <<GetEvent(g), "net.interrupted", PutEvent(p)>>,
               !.removed = g.removed \cup p.removed, !.clean = FALSE]
       ELSE [Result(p.c) EXCEPT
               !.fetched = out.data,
               !.dest = IF mv THEN out.data ELSE None,
               !.exc = IF mv THEN "none" ELSE "OSError",
               !.events = <<GetEvent(g), "net.ok", PutEvent(p),
                            IF mv THEN "move.ok" ELSE "move.fail">>,
               !.removed = g.removed \cup p.removed,
               !.putOk = ~p.raised, !.clean = (g.removed = {} /\ ~p.raised)]

\* WalrusClient.get_blob_as_file; xfer: how the transfer ends after the
\* status line; mv: shutil.move succeeds; staging: the temporary file exists
\* when the call ends
GetBlobAsFileCall(c, id, rf, out, xfer, wf, mv, now) ==
  LET g == CacheGet(c, id, rf) IN
  IF g.ret # None
  THEN [Result(g.c) EXCEPT !.dest = g.ret, !.events = <<GetEvent(g)>>,
                           !.hit = TRUE]
  ELSE IF ~out.ok
  THEN [Result(g.c) EXCEPT
          !.exc = HandleRequestError(out.err),
          !.events = <<GetEvent(g), "net.fail">>,
          !.removed = g.removed, !.clean = (g.removed = {})]
  ELSE IF xfer = "error"
  THEN \* except Exception: the temporary file is closed and removed
       [Result(g.c) EXCEPT
          !.exc = HandleRequestError(NoResponse),
          !.events = <<GetEvent(g), "net.interrupted">>,
          !.removed = g.removed, !.clean = (g.removed = {})]
  ELSE IF xfer = "cancel"
  THEN \* not an Exception: no handler runs, the temporary file stays
       [Result(g.c) EXCEPT
          !.exc = "KeyboardInterrupt",
          !.events = <<GetEvent(g), "net.cancelled">>,
          !.staging = TRUE,
          !.removed = g.removed, !.clean = (g.removed = {})]
  ELSE LET p == CachePut(g.c, id, out.data, now, wf) IN
       [Result(p.c) EXCEPT
          !.fetched = out.data,
          !.dest = IF mv THEN out.data ELSE None,
          !.exc = IF mv THEN "none" ELSE "OSError",
          !.events = <<GetEvent(g), "net.ok", PutEvent(p),
                       IF mv THEN "move.ok" ELSE "move.fail">>,
          !.removed = g.removed \cup p.removed,
          !.putOk = ~p.raised, !.clean = (g.removed = {} /\ ~p.raised)]

\* an upload that caches what it uploaded
PutBlobCaches(c, data, out) ==
  IF out.ok
  THEN [Result(CachePut(c, 1, data, 0, "none").c) EXCEPT
          !.ret = 0, !.events = <<"net.ok">>]
  ELSE [Result(c) EXCEPT !.exc = HandleRequestError(out.err),
                         !.events = <<"net.fail">>]

\* WalrusClient.put_blob and put_blob_from_stream: one request, no cache call
PutBlobCall(c, data, out) ==
  IF out.ok
  THEN [Result(c) EXCEPT !.ret = 0, !.events = <<"net.ok">>]
  ELSE [Result(c) EXCEPT !.exc = HandleRequestError(out.err),
                         !.events = <<"net.fail">>]

\* WalrusClient.get_blob_metadata
GetBlobMetadataCall(c, id, out) ==
  IF out.ok
  THEN [Result(c) EXCEPT !.ret = 0, !.events = <<"net.ok">>]
  ELSE [Result(c) EXCEPT !.exc = HandleRequestError(out.err),
                         !.events = <<"net.fail">>]

\* WalrusClient.get_blob_as_stream: one request, no cache call; the stream
\* hands out the payload
GetBlobAsStreamCall(c, id, out) ==
  IF out.ok
  THEN [Result(c) EXCEPT !.ret = out.data, !.fetched = out.data,
                         !.events = <<"net.ok">>]
  ELSE [Result(c) EXCEPT !.exc = HandleRequestError(out.err),
                         !.events = <<"net.fail">>]

Apply(op, id, r) ==
  /\ SetCache(r.c)
  /\ last' = [op |-> op, id |-> id, ret |-> r.ret, exc |-> r.exc,
              events |-> r.events, dest |-> r.dest, fetched |-> r.fetched,
              staging |-> r.staging]
  /\ Hist(r.c, r.removed, IF r.putOk THEN id ELSE None, r.fetched,
          IF r.hit THEN id ELSE None, r.clean)
  /\ UNCHANGED <<max_size, clock>>

\* the inputs that a call with these inputs does not consult are not varied
Hit(id, rf) == CacheGet(Cache, id, rf).ret # None

Faults(id) == IF id \in DOMAIN cache_index THEN ReadFaults ELSE {"none"}

Requests(id, rf) ==
  IF Hit(id, rf) THEN {[ok |-> FALSE, data |-> None, err |-> NoResponse]}
  ELSE NetOutcomes

GetBlob(id) ==
  \E rf \in Faults(id) :
    \E out \in Requests(id, rf) :
      \E wf \in (IF out.ok THEN WriteFaults ELSE {"none"}) :
        Apply("get_blob", id, GetBlobCall(Cache, id, rf, out, wf, clock))

GetBlobAsFile(id) ==
  \E rf \in Faults(id) :
    \E out \in Requests(id, rf) :
      \E xfer \in (IF out.ok THEN Transfers ELSE {"complete"}) :
        \E wf \in (IF out.ok /\ xfer = "complete" THEN WriteFaults
                    ELSE {"none"}),
           mv \in (IF out.ok /\ xfer = "complete" THEN BOOLEAN ELSE {TRUE}) :
          Apply("get_blob_as_file", id,
                GetBlobAsFileCall(Cache, id, rf, out, xfer, wf, mv, clock))

PutBlob(data) ==
  \E out \in NetOutcomes :
    Apply("put_blob", None, PutBlobCall(Cache, data, out))

\* put_blob_from_file: FileNotFoundError unless the file exists, else put_blob
PutBlobFromFile(data, exists) ==
  IF exists
  THEN \E out \in NetOutcomes :
         Apply("put_blob_from_file", None, PutBlobCall(Cache, data, out))
  ELSE Apply("put_blob_from_file", None,
             [Result(Cache) EXCEPT !.exc = "FileNotFoundError"])

\* put_blob_from_stream: ValueError unless the stream is readable
PutBlobFromStream(data, readable) ==
  IF readable
  THEN \E out \in NetOutcomes :
         Apply("put_blob_from_stream", None, PutBlobCall(Cache, data, out))
  ELSE Apply("put_blob_from_stream", None,
             [Result(Cache) EXCEPT !.exc = "ValueError"])

GetBlobMetadata(id) ==
  \E out \in NetOutcomes :
    Apply("get_blob_metadata", id, GetBlobMetadataCall(Cache, id, out))

GetBlobAsStream(id) ==
  \E out \in NetOutcomes :
    Apply("get_blob_as_stream", id, GetBlobAsStreamCall(Cache, id, out))

\* reads through the cache
NextRead ==
  \/ Cleanup
  \/ \E id \in BlobIds : GetBlob(id)
  \/ \E id \in BlobIds : GetBlobAsFile(id)

SpecRead == InitPlain /\ [][NextRead]_vars

\* lookups, removals and cached reads
NextEvict ==
  \/ \E id \in BlobIds : Get(id)
  \/ \E id \in BlobIds : Remove(id)
  \/ \E id \in BlobIds : GetBlob(id)

SpecEvict == InitEntries /\ [][NextEvict]_vars

\* uploads and metadata requests next to cached reads
NextWrite ==
  \/ \E id \in BlobIds : GetBlob(id)
  \/ \E d \in Datas : PutBlob(d)
  \/ \E d \in Datas, exists \in BOOLEAN : PutBlobFromFile(d, exists)
  \/ \E d \in Datas, readable \in BOOLEAN : PutBlobFromStream(d, readable)
  \/ \E id \in BlobIds : GetBlobMetadata(id)

SpecWrite == InitPlain /\ [][NextWrite]_vars

\* streamed reads next to cached reads
NextStream ==
  \/ \E id \in BlobIds : GetBlob(id)
  \/ \E id \in BlobIds : GetBlobAsStream(id)

SpecStream == InitPlain /\ [][NextStream]_vars

Next ==
  \/ Tick
  \/ \E id \in BlobIds : Get(id)
  \/ \E id \in BlobIds, d \in Datas : Put(id, d)
  \/ \E id \in BlobIds : Remove(id)
  \/ Cleanup
  \/ \E id \in BlobIds : GetBlob(id)
  \/ \E id \in BlobIds : GetBlobAsFile(id)
  \/ \E d \in Datas : PutBlob(d)
  \/ \E d \in Datas, exists \in BOOLEAN : PutBlobFromFile(d, exists)
  \/ \E d \in Datas, readable \in BOOLEAN : PutBlobFromStream(d, readable)
  \/ \E id \in BlobIds : GetBlobMetadata(id)
  \/ \E id \in BlobIds : GetBlobAsStream(id)

Spec == Init /\ [][Next]_vars

----------------------------------------------------------------------------
(* claims about BlobCache *)

\* C1: with max_size = N >= 1 the index holds at most N entries in every
\* state reachable by put and get calls.
C1_CountBound ==
  max_size >= 1 => Cardinality(DOMAIN cache_index) <= max_size

\* C2: a successful get makes the entry the most recently used one: the
\* victim of a put is never an entry that was put or read later than some
\* other indexed entry.
C2_GetRefreshes ==
  [][\A id \in BlobIds, d \in Datas :
       (pure /\ max_size >= 1 /\ PutF(id, d, "none") /\ PutVictim(Cache) # None)
       => \A w \in DOMAIN cache_index :
            lastUse[w] >= lastUse[PutVictim(Cache)]]_vars

\* C3: after successful puts only, the indexed ids are exactly the
\* min(N, number of distinct ids put) most recently written ids.
C3_SurvivorSet ==
  (pure /\ max_size >= 1) => DOMAIN cache_index = Range(recent)

C6_ReadFault ==
  [][\A id \in BlobIds, rf \in ReadFaults :
       (id \in DOMAIN cache_index /\ (~Intact(Cache, id) \/ rf # "none")
          /\ GetF(id, rf))
       => /\ last'.ret = None
          /\ last'.exc = "none"
          /\ id \notin DOMAIN cache_index'
          /\ id \notin TimesKeys(access_times')]_vars

C6_Witness ==
  /\ last.op = "get"
  /\ last.events = <<"cache.get.fault">>
  /\ ~dir_exists
  /\ last.id \notin DOMAIN cache_index

----------------------------------------------------------------------------
(* claims about WalrusClient *)

\* the step is a call of op on id (a call leaves the clock alone and records
\* itself in last)
Called(op, id) == clock' = clock /\ last'.op = op /\ last'.id = id

\* C5: once an entry has been evicted or removed, get returns None for its
\* id until the id is put again, and get_blob for it goes to the network.
C5_MissAfterEvict ==
  [][\A id \in evicted :
       /\ \A rf \in ReadFaults : GetF(id, rf) => last'.ret = None
       /\ Called("get_blob", id)
            => /\ Len(last'.events) >= 2
               /\ last'.events[1] # "cache.get.hit"
               /\ last'.events[2] \in {"net.ok", "net.fail"}]_vars

C5_Witness ==
  /\ last.op = "get_blob"
  /\ last.id \in evicted
  /\ last.events = <<"cache.get.miss", "net.fail">>
  /\ Cardinality(DOMAIN cache_index) = max_size

\* C7: when the fetch succeeds, get_blob returns the fetched bytes and
\* get_blob_as_file writes them to the destination, whether or not cache.put
\* raises.
C7_CacheFailureNotFatal ==
  /\ (last.op = "get_blob" /\ "net.ok" \in Range(last.events))
       => (last.exc = "none" /\ last.ret = last.fetched)
  /\ (last.op = "get_blob_as_file" /\ "move.ok" \in Range(last.events))
       => (last.exc = "none" /\ last.dest = last.fetched)

C7_Witness ==
  /\ last.op = "get_blob"
  /\ last.events = <<"cache.get.miss", "net.ok", "cache.put.raise">>
  /\ last.exc = "none"
  /\ last.ret = last.fetched
  /\ last.ret # None

NetOps ==
  {"get_blob", "get_blob_as_file", "get_blob_metadata", "put_blob",
   "put_blob_from_file", "put_blob_from_stream"}

FetchFailed(ev) == "net.fail" \in Range(ev) \/ "net.interrupted" \in Range(ev)

\* C8: whenever the request of an operation fails, the operation ends by
\* raising WalrusAPIError.
C8_RemoteErrorRaised ==
  (last.op \in NetOps /\ FetchFailed(last.events))
    => last.exc = "WalrusAPIError"

\* C9: put_blob, put_blob_from_file and put_blob_from_stream leave the index,
\* the timestamps and the cached files as they were.
C9_WriteBypass ==
  [][(\/ Called("put_blob", None)
      \/ Called("put_blob_from_file", None)
      \/ Called("put_blob_from_stream", None))
     => UNCHANGED cacheVars]_vars

C9_Witness ==
  /\ last.op \in {"put_blob", "put_blob_from_file", "put_blob_from_stream"}
  /\ last.exc = "none"
  /\ DOMAIN cache_index # {}

Lookups == {"cache.get.hit", "cache.get.miss", "cache.get.fault"}

\* the lookup comes first and once, a hit ends the call, and cache.put
\* directly follows a completed fetch
OrderedRead(ev) ==
  /\ Len(ev) >= 1
  /\ ev[1] \in Lookups
  /\ \A i \in 2..Len(ev) : ev[i] \notin Lookups
  /\ ev[1] = "cache.get.hit" => Len(ev) = 1
  /\ \A i \in DOMAIN ev :
       ev[i] \in {"cache.put.ok", "cache.put.raise"}
         => (i > 1 /\ ev[i - 1] = "net.ok")

\* no entry of the cache is new or changed
NoNewEntry ==
  /\ DOMAIN cache_index' \subseteq DOMAIN cache_index
  /\ \A k \in DOMAIN cache_index' : cache_index'[k] = cache_index[k]
  /\ DOMAIN files' \subseteq DOMAIN files
  /\ \A f \in DOMAIN files' : files'[f] = files[f]
  /\ Range(access_times') \subseteq Range(access_times)

\* C10: a cached read looks up the cache before any request, makes no
\* request on a hit, calls cache.put only after the fetch has completed, and
\* a failed fetch adds or changes no cache entry.
C10_ReadOrdering ==
  [][\A id \in BlobIds :
       (Called("get_blob", id) \/ Called("get_blob_as_file", id))
       => /\ OrderedRead(last'.events)
          /\ FetchFailed(last'.events) => NoNewEntry]_vars

C10_Witness ==
  /\ last.op = "get_blob_as_file"
  /\ last.events = <<"cache.get.miss", "net.interrupted">>
  /\ DOMAIN cache_index # {}

----------------------------------------------------------------------------
(* further claims about BlobCache *)

\* C11: no cache with max_size <= 0 reaches a state in which put or get has
\* run: construction with a non-positive capacity fails.
C11_BoundsChecked ==
  last.op \in {"get", "put"} => max_size >= 1

\* the entry v is the first one, in insertion order, with the smallest
\* timestamp of s
FirstSmallest(s, v) ==
  \E i \in DOMAIN s :
    /\ s[i].id = v
    /\ \A j \in DOMAIN s : s[j].t > s[i].t \/ (s[j].t = s[i].t /\ j >= i)

\* C14: a put into an index holding max_size entries evicts exactly one
\* entry before the write, the first one with the smallest timestamp; a put
\* into an index holding fewer entries evicts nothing.
C14_EvictionStep ==
  [][\A id \in BlobIds, d \in Datas, wf \in WriteFaults :
       (max_size >= 1 /\ PutF(id, d, wf))
       => /\ Cardinality(DOMAIN cache_index) = max_size
               => \E v \in DOMAIN cache_index :
                    /\ FirstSmallest(access_times, v)
                    /\ DOMAIN cache_index' \ {id}
                         = (DOMAIN cache_index \ {v}) \ {id}
          /\ Cardinality(DOMAIN cache_index) < max_size
               => DOMAIN cache_index \subseteq DOMAIN cache_index']_vars

\* C15: a put that fails raises, leaves no file at the path of its id and
\* does not leave the id indexed without its file.
C15_FailedPut ==
  (last.op = "put" /\ last.events = <<"cache.put.raise">>)
    => /\ last.exc # "none"
       /\ Hash(last.id) \notin DOMAIN files
       /\ last.id \in DOMAIN cache_index => Intact(Cache, last.id)

\* C16: every indexed id has its file on disk, and every file of the cache
\* directory is the file of an indexed id.
C16_IndexMatchesFiles ==
  /\ \A id \in DOMAIN cache_index : cache_index[id] \in DOMAIN files
  /\ \A f \in DOMAIN files : \E id \in DOMAIN cache_index : cache_index[id] = f

\* C19: get of an id that is not indexed returns None and changes neither
\* the index, the timestamps, the files nor the victim of the next put.
C19_MissNoEffect ==
  [][\A id \in BlobIds, rf \in ReadFaults :
       (id \notin DOMAIN cache_index /\ GetF(id, rf))
       => /\ last'.ret = None
          /\ last'.exc = "none"
          /\ UNCHANGED cacheVars
          /\ PutVictim(Cache)' = PutVictim(Cache)]_vars

C19_Witness ==
  /\ last.op = "get"
  /\ last.events = <<"cache.get.miss">>
  /\ last.ret = None
  /\ Cardinality(DOMAIN cache_index) = max_size
  /\ max_size >= 1

\* C20: a blob id is in the index if and only if it is in the timestamps.
C20_SameKeys ==
  DOMAIN cache_index = TimesKeys(access_times)

----------------------------------------------------------------------------
(* further claims about WalrusClient *)

\* C12: get_blob_as_stream looks up the cache before it goes to the network,
\* and after a successful streamed read the blob is cached, so that the next
\* get_blob of it is a hit.
C12_StreamCached ==
  last.op = "get_blob_as_stream"
    => /\ Len(last.events) >= 1
       /\ last.events[1] \in Lookups
       /\ last.exc = "none" => Hit(last.id, "none")

\* the number of bytes of a content, and of all cached files
Size(d) == d

RECURSIVE SumSizes(_, _)
SumSizes(f, names) ==
  IF names = {} THEN 0
  ELSE LET n == CHOOSE x \in names : TRUE
       IN Size(f[n].data) + SumSizes(f, names \ {n})

TotalBytes == SumSizes(files, DOMAIN files)

\* a byte capacity that admits every single blob
LargestBlob == Size(NumData - 1)

\* C13: with a byte capacity B configured, the sizes of the cached entries
\* add up to at most B.
C13_ByteBound ==
  max_size >= 1 => TotalBytes <= LargestBlob

TransferBroken(ev) ==
  "net.interrupted" \in Range(ev) \/ "net.cancelled" \in Range(ev)

\* cache.put is called after the whole transfer, with the complete payload
PutComplete(id) ==
  /\ OrderedRead(last'.events)
  /\ "cache.put.ok" \in Range(last'.events)
       => /\ Hash(id) \in DOMAIN files'
          /\ files'[Hash(id)].data = last'.fetched

\* C17 as stated: a transfer of get_blob_as_file that fails or is interrupted
\* leaves the index, the timestamps and the cached files unchanged.
C17_BrokenTransferNoChange ==
  [][\A id \in BlobIds :
       Called("get_blob_as_file", id)
       => /\ PutComplete(id)
          /\ TransferBroken(last'.events) => UNCHANGED cacheVars]_vars

\* C17 as amended: a transfer of get_blob_as_file that fails or is
\* interrupted adds and changes no cache entry; the cache is unchanged unless
\* the lookup of the call found the file of the id missing or unreadable, and
\* then only the entry of that id is removed.
C17_BrokenTransferNoEntry ==
  [][\A id \in BlobIds :
       Called("get_blob_as_file", id)
       => /\ PutComplete(id)
          /\ TransferBroken(last'.events)
               => /\ NoNewEntry
                  /\ last'.events[1] = "cache.get.miss" => UNCHANGED cacheVars
                  /\ last'.events[1] = "cache.get.fault"
                       => /\ id \in DOMAIN cache_index
                          /\ Cache' = RemoveFromCache(Cache, id)]_vars

C17_Witness ==
  /\ last.op = "get_blob_as_file"
  /\ last.events = <<"cache.get.fault", "net.interrupted">>
  /\ DOMAIN cache_index # {}

\* C18: when a call of get_blob_as_file ends, the staging file it created no
\* longer exists, on every exit path.
C18_StagingReleased ==
  last.op = "get_blob_as_file" => ~last.staging

====
